---- MODULE Spec2Model ----
(***************************************************************************)
(* Model of demo_pdf_reader: the engine registry and its dispatch          *)
(* (TableExtractor), the fallback chain (import_table_with_fallback), its  *)
(* batch variant (import_directory_with_fallback), the markdown rendering  *)
(* (table_to_markdown), the tuning search of the pdfplumber engine         *)
(* (tune_to_reference) and the engines with their optional backends and    *)
(* lazily created handles.                                                 *)
(*                                                                         *)
(* Python strings are modelled as sequences of one-character strings, so   *)
(* that slicing, joining, splitting and ordering are computed and not      *)
(* assumed.  Engine names and exception class names are atoms.             *)
(***************************************************************************)
EXTENDS Integers, Sequences, FiniteSets, TLC

VARIABLES
    \* ---- table_to_markdown -------------------------------------------
    table,          \* the Table argument
    md,             \* outcome of the call: NoneVal before, then Some(Ok/Raise)
    \* ---- TableExtractor ----------------------------------------------
    engines,        \* self._engines: the registrations, in insertion order
    calls,          \* log of engine.extract invocations, in order
    \* ---- TableExtractor.extract --------------------------------------
    x_names,        \* argument `engines`: NoneVal or Some(sequence of names)
    x_tune,         \* argument `tune_pdfplumber`
    xpc,            \* position in extract
    x_selected,     \* local `selected`
    xi,             \* 1-based position of the loop over `selected`
    x_results,      \* local `results`
    x_out,          \* NoneVal, then Some(what extract returned or raised)
    \* ---- import_table_with_fallback ----------------------------------
    pdf_path,       \* argument: the document
    engine_order,   \* argument: NoneVal or Some(sequence of engine names)
    min_rows,       \* argument: NoneVal or Some(n)
    extractor,      \* argument: NoneVal or Some(registry)
    order,          \* local `order`
    cpc,            \* position in the chain
    idx,            \* 1-based position of the for loop in `order`
    cres,           \* NoneVal, then Some(what the chain returned or raised)
    \* ---- import_directory_with_fallback ------------------------------
    input_dir,      \* the names of the entries of the input directory
    bpc,            \* position in the batch
    pdf_files,      \* local `pdf_files`
    di,             \* 1-based position of the for loop in `pdf_files`
    name,           \* unique_sheet_name: local `name`
    candidate,      \* unique_sheet_name: local `candidate`
    suffix,         \* unique_sheet_name: local `suffix`
    sheet_names,    \* local `sheet_names`
    workbook,       \* the sheets created so far, in order: [title, rows]
    results,        \* local `results`: the (file name, entry) pairs, in insertion order
    saved,          \* whether workbook.save has written the output file
    bres,           \* NoneVal, then Some(what the batch returned or raised)
    \* ---- PDFPlumberTableEngine.tune_to_reference ----------------------
    self_settings,  \* the engine's own self.min_words and self.snap_tolerance
    reference_tables, \* argument: the tables of the reference engine
    snap_range,     \* argument: the initial bracket <<low, high>>
    max_depth,      \* argument
    min_word_options, \* argument: NoneVal or Some(sequence of min_words values)
    tpc,            \* position in tune_to_reference
    candidates,     \* sorted(set(candidates)), the sequence the for loop walks
    ci,             \* 1-based position of the for loop in `candidates`
    best_overall,   \* locals best_score, best_settings, best_tables
    bracket,        \* _recursive_snap_search: parameter `snap_range` of the frame
    depth,          \* _recursive_snap_search: parameter `depth` of the frame
    best,           \* _recursive_snap_search: parameter `best` of the frame
    trials,         \* log of the _extract_with_settings calls, in order
    t_out,          \* NoneVal, then Some(what tune_to_reference returned or raised)
    \* ---- engines with an optional backend ----------------------------
    installed,      \* the backend modules that can be imported
    _reader,        \* EasyOCRTableEngine._reader
    _converter,     \* DoclingTableEngine._converter
    _patched_tempdir, \* CamelotTableEngine._patched_tempdir
    TemporaryDirectory, \* camelot.utils.TemporaryDirectory: the class installed
    handles,        \* log of the handles created, in order
    e_calls         \* log of the extract calls made on the engines, in order

mdVars == <<table, md>>
regVars == <<engines, calls>>
extVars == <<x_names, x_tune, xpc, x_selected, xi, x_results, x_out>>
chainVars == <<pdf_path, engine_order, min_rows, extractor, order, cpc, idx, cres>>
batchVars == <<input_dir, bpc, pdf_files, di, name, candidate, suffix, sheet_names,
               workbook, results, saved, bres>>
tuneVars == <<self_settings, reference_tables, snap_range, max_depth, min_word_options,
              tpc, candidates, ci, best_overall, bracket, depth, best, trials, t_out>>
engVars == <<installed, _reader, _converter, _patched_tempdir, TemporaryDirectory,
             handles, e_calls>>
vars == <<mdVars, regVars, extVars, chainVars, batchVars, tuneVars, engVars>>

----------------------------------------------------------------------------
(* Bounds of the model *)

MaxTableRows == 2   \* rows of a table handed to table_to_markdown
MaxCols == 3        \* cells of a row handed to table_to_markdown
MaxOrder == 2       \* length of a caller-supplied engine_order
MaxMinRows == 12    \* largest min_rows a caller passes
MaxReg == 2         \* engines registered with a caller-built extractor
MaxDocs == 3        \* entries of the input directory of a batch
MaxBatchOrder == 1  \* length of a caller-supplied engine_order of a batch
MaxSel == 2         \* length of the names requested from TableExtractor.extract

----------------------------------------------------------------------------
(* Optional values: Python's None and a present value *)

NoneVal == [given |-> FALSE]
Some(v) == [given |-> TRUE, val |-> v]

(* Outcome of a call: a returned value or a raised exception *)
Ok(v) == [ok |-> TRUE, val |-> v]
Raise(e, m) == [ok |-> FALSE, exc |-> e, msg |-> m]

----------------------------------------------------------------------------
(* Strings as character sequences *)

Max(S) == CHOOSE x \in S : \A y \in S : y <= x

RECURSIVE Join(_, _)
\* sep.join(parts)
Join(sep, parts) ==
    IF parts = <<>> THEN <<>>
    ELSE IF Len(parts) = 1 THEN parts[1]
    ELSE parts[1] \o sep \o Join(sep, Tail(parts))

\* s[:n] for n >= 0
Prefix(s, n) == SubSeq(s, 1, IF n < Len(s) THEN n ELSE Len(s))

DigitChars == <<"0", "1", "2", "3", "4", "5", "6", "7", "8", "9">>

RECURSIVE Decimal(_)
\* str(n) for n >= 0
Decimal(n) ==
    IF n < 10 THEN <<DigitChars[n + 1]>>
    ELSE Decimal(n \div 10) \o <<DigitChars[(n % 10) + 1]>>

----------------------------------------------------------------------------
(* Table model: a Table is a sequence of rows, a row a sequence of Cells *)

Cell(text) == [text |-> text]

\* build_table of the test-suite: rows x cols cells "r<r>c<c>"
BuildTable(rows, cols) ==
    [r \in 1..rows |->
        [c \in 1..cols |-> Cell(<<"r">> \o Decimal(r - 1) \o <<"c">> \o Decimal(c - 1))]]

----------------------------------------------------------------------------
(* table_to_markdown *)

_pad_row(row, width) ==
    IF Len(row) >= width THEN row
    ELSE row \o [i \in 1..(width - Len(row)) |-> <<>>]

Bar == <<"|">>
Space == <<" ">>
Newline == <<"\n">>
Dashes == <<"-", "-", "-">>

format_row(row, column_count) ==
    Bar \o Space \o Join(Space \o Bar \o Space, _pad_row(row, column_count)) \o Space \o Bar

table_to_markdown(t) ==
    IF t = <<>>
    THEN Raise("ValueError", <<"Lege tabel kan niet naar markdown worden omgezet">>)
    ELSE LET text_rows == [r \in 1..Len(t) |-> [c \in 1..Len(t[r]) |-> t[r][c].text]]
             column_count == Max({Len(text_rows[r]) : r \in 1..Len(text_rows)})
             header_divider ==
                 Bar \o Space
                     \o Join(Space \o Bar \o Space, [c \in 1..column_count |-> Dashes])
                     \o Space \o Bar
             lines == <<format_row(text_rows[1], column_count), header_divider>>
                         \o [r \in 1..(Len(text_rows) - 1) |->
                                format_row(text_rows[r + 1], column_count)]
         IN  Ok(Join(Newline, lines))

----------------------------------------------------------------------------
(* Specification of table_to_markdown: any table over CellTexts is rendered *)

\* Cell texts: empty, plain, and a cell whose text spans two lines
CellTexts == {<<>>, <<"a">>, <<"a", "\n", "b">>}

SeqsUpTo(S, n) == UNION {[1..k -> S] : k \in 0..n}

Rows == {[c \in 1..Len(r) |-> Cell(r[c])] : r \in SeqsUpTo(CellTexts, MaxCols) \ {<<>>}}

Tables == SeqsUpTo(Rows, MaxTableRows)

MdIdle == table = <<>> /\ md = NoneVal

MdInit == table \in Tables /\ md = NoneVal

Render ==
    /\ md = NoneVal
    /\ md' = Some(table_to_markdown(table))
    /\ UNCHANGED <<table, regVars, extVars, chainVars, batchVars, tuneVars, engVars>>

----------------------------------------------------------------------------
(* TableExtractor: the registry *)

\* An engine instance: its name and the identity of the object
Engine(n, inst) == [name |-> n, inst |-> inst]

ExtractionResult(engine, tables) == [engine |-> engine, tables |-> tables]

Names(engs) == {engs[i].name : i \in 1..Len(engs)}

\* self._engines[n], for a registered n
Lookup(engs, n) == engs[CHOOSE i \in 1..Len(engs) : engs[i].name = n]

\* register with the dict keeping an entry for every registration
registerAppending(engs, e) == Append(engs, e)

\* self._engines[engine.name] = engine: a dict keeps the position of a key it has
register(engs, e) ==
    IF e.name \in Names(engs)
    THEN [i \in 1..Len(engs) |-> IF engs[i].name = e.name THEN e ELSE engs[i]]
    ELSE Append(engs, e)

RECURSIVE RegisterAll(_, _)
RegisterAll(engs, es) ==
    IF es = <<>> THEN engs ELSE RegisterAll(register(engs, es[1]), Tail(es))

\* TableExtractor.__init__
DefaultEngines ==
    RegisterAll(<<>>, <<Engine("pdfplumber", 1), Engine("easyocr", 2),
                        Engine("pymupdf4llm", 3), Engine("docling", 4),
                        Engine("camelot", 5)>>)

RECURSIVE SelectFromSkipping(_, _, _)
\* SelectFrom with a name that is not registered left out of the selection
SelectFromSkipping(engs, names, selected) ==
    IF names = <<>> THEN Ok(selected)
    ELSE IF names[1] \notin Names(engs)
         THEN SelectFromSkipping(engs, Tail(names), selected)
         ELSE SelectFromSkipping(engs, Tail(names),
                                 Append(selected, Lookup(engs, names[1])))

RECURSIVE SelectFrom(_, _, _)
\* the for loop of _validate_selection over the names left, `selected` so far
SelectFrom(engs, names, selected) ==
    IF names = <<>> THEN Ok(selected)
    ELSE IF names[1] \notin Names(engs)
         THEN Raise("ValueError", <<"Onbekende engine: ", names[1]>>)
         ELSE SelectFrom(engs, Tail(names), Append(selected, Lookup(engs, names[1])))

_validate_selection(engs, names) ==
    IF ~names.given THEN Ok(engs) ELSE SelectFrom(engs, names.val, <<>>)

----------------------------------------------------------------------------
(* What one call of an engine's extract can do: return a list of tables or *)
(* raise.  The engines are external; every call draws from these outcomes. *)

\* Row counts of the tables of the test-suite, and a table without rows
RowChoices == {0, 3, 5, 11, 12}

TableLists ==
    {<<>>} \cup {<<BuildTable(r, 2)>> : r \in RowChoices}
           \cup {<<BuildTable(5, 2), BuildTable(11, 2)>>}

EngineOutcomes ==
    {Ok(t) : t \in TableLists}
        \cup {Raise("RuntimeError", <<"engine failure">>),
                 Raise("ValueError", <<"bad document">>)}

Invocation(e, pdf, out) == [engine |-> e.name, inst |-> e.inst, pdf |-> pdf, out |-> out]

\* extractor.extract(pdf_path, engines=[engine_name]) with tune_pdfplumber off, `out`
\* being what the selected engine's extract does when it is invoked
ExtractSingle(engs, engine_name, out) ==
    LET selected == _validate_selection(engs, Some(<<engine_name>>))
    IN  IF ~selected.ok THEN selected
        ELSE IF ~out.ok THEN out
        ELSE Ok(<<ExtractionResult(selected.val[1].name, out.val)>>)

----------------------------------------------------------------------------
(* TableExtractor.extract *)

PDFPlumberSettings(min_words, snap_tolerance) ==
    [min_words |-> min_words, snap_tolerance |-> snap_tolerance]

\* _format_tuned_label: the label carries the settings
_format_tuned_label(settings) ==
    <<"pdfplumber (tuned) ", settings.snap_tolerance, settings.min_words>>

\* What one call of an engine's extract does within extract: nothing found, a
\* table found, a backend failure
ExtractOutcomes ==
    {Ok(<<>>), Ok(<<BuildTable(5, 2)>>), Raise("RuntimeError", <<"engine failure">>)}

\* What the tuning search returns: the tuned tables with the settings that
\* produced them (snap_tolerance in hundredths), or the failure of a trial
TuneOutcomes ==
    {Ok([tables |-> t, settings |-> PDFPlumberSettings(2, 300)]) :
        t \in {<<>>, <<BuildTable(5, 2)>>}}
        \cup {Raise("RuntimeError", <<"engine failure">>)}

\* The loop of extract with the skip left out: no engine is passed over
SkippedInLoopNever(tune_pdfplumber, engine) == FALSE

\* if tune_pdfplumber and engine.name == "pymupdf4llm": continue
SkippedInLoop(tune_pdfplumber, engine) ==
    tune_pdfplumber /\ engine.name = "pymupdf4llm"

\* RunEngine with the failure of the engine swallowed and the loop going on
RunEngineSwallowing(rs, label, out) ==
    IF ~out.ok THEN Ok(rs) ELSE Ok(Append(rs, ExtractionResult(label, out.val)))

\* tables = engine.extract(pdf_path); results.append(ExtractionResult(...)):
\* there is no except clause, what the engine raises leaves extract
RunEngine(rs, label, out) ==
    IF ~out.ok THEN out ELSE Ok(Append(rs, ExtractionResult(label, out.val)))

\* self._engines[n]
GetEngine(engs, n) ==
    IF n \in Names(engs) THEN Ok(Lookup(engs, n)) ELSE Raise("KeyError", <<n>>)

\* selected = self._validate_selection(engines); results = []
ExtractValidate ==
    /\ xpc = "call"
    /\ LET selected == _validate_selection(engines, x_names)
       IN  IF ~selected.ok
           THEN /\ x_out' = Some(selected)
                /\ xpc' = "raised"
                /\ UNCHANGED <<x_selected, xi>>
           ELSE /\ x_selected' = selected.val
                /\ xi' = 1
                /\ xpc' = IF x_tune THEN "reference" ELSE "for"
                /\ UNCHANGED x_out
    /\ UNCHANGED <<x_names, x_tune, x_results>>
    /\ UNCHANGED <<mdVars, tuneVars, engVars, regVars, chainVars, batchVars>>

\* _tune_pdfplumber, up to the reference result
ExtractReference ==
    /\ xpc = "reference"
    /\ LET pymupdf_engine == GetEngine(engines, "pymupdf4llm")
       IN  IF ~pymupdf_engine.ok
           THEN /\ x_out' = Some(pymupdf_engine)
                /\ xpc' = "raised"
                /\ UNCHANGED <<calls, x_results>>
           ELSE \E out \in ExtractOutcomes :
                    /\ calls' = Append(calls, Invocation(pymupdf_engine.val, pdf_path, out))
                    /\ LET ran == RunEngine(x_results, pymupdf_engine.val.name, out)
                       IN  IF ~ran.ok
                           THEN /\ x_out' = Some(ran)
                                /\ xpc' = "raised"
                                /\ UNCHANGED x_results
                           ELSE /\ x_results' = ran.val
                                /\ xpc' = "tune"
                                /\ UNCHANGED x_out
    /\ UNCHANGED <<x_names, x_tune, x_selected, xi, engines>>
    /\ UNCHANGED <<mdVars, tuneVars, engVars, chainVars, batchVars>>

\* _tune_pdfplumber, the tuning search and the tuned result
ExtractTune ==
    /\ xpc = "tune"
    /\ LET pdfplumber_engine == GetEngine(engines, "pdfplumber")
       IN  IF ~pdfplumber_engine.ok
           THEN /\ x_out' = Some(pdfplumber_engine)
                /\ xpc' = "raised"
                /\ UNCHANGED <<calls, x_results>>
           ELSE \E out \in TuneOutcomes :
                    /\ calls' = Append(calls, [Invocation(pdfplumber_engine.val, pdf_path, out)
                                                  EXCEPT !.engine = "pdfplumber (tuning)"])
                    /\ IF ~out.ok
                       THEN /\ x_out' = Some(out)
                            /\ xpc' = "raised"
                            /\ UNCHANGED x_results
                       ELSE /\ x_results' = Append(x_results,
                                ExtractionResult(_format_tuned_label(out.val.settings), out.val.tables))
                            /\ xpc' = "for"
                            /\ UNCHANGED x_out
    /\ UNCHANGED <<x_names, x_tune, x_selected, xi, engines>>
    /\ UNCHANGED <<mdVars, tuneVars, engVars, chainVars, batchVars>>

\* One iteration of `for engine in selected`
ExtractRun ==
    /\ xpc = "for"
    /\ xi <= Len(x_selected)
    /\ LET engine == x_selected[xi]
       IN  IF SkippedInLoop(x_tune, engine)
           THEN /\ xi' = xi + 1
                /\ UNCHANGED <<calls, x_results, x_out, xpc>>
           ELSE \E out \in ExtractOutcomes :
                    /\ calls' = Append(calls, Invocation(engine, pdf_path, out))
                    /\ LET ran == RunEngine(x_results, engine.name, out)
                       IN  IF ~ran.ok
                           THEN /\ x_out' = Some(ran)
                                /\ xpc' = "raised"
                                /\ UNCHANGED <<x_results, xi>>
                           ELSE /\ x_results' = ran.val
                                /\ xi' = xi + 1
                                /\ UNCHANGED <<x_out, xpc>>
    /\ UNCHANGED <<x_names, x_tune, x_selected, engines>>
    /\ UNCHANGED <<mdVars, tuneVars, engVars, chainVars, batchVars>>

\* return results
ExtractReturn ==
    /\ xpc = "for"
    /\ xi > Len(x_selected)
    /\ x_out' = Some(Ok(x_results))
    /\ xpc' = "returned"
    /\ UNCHANGED <<x_names, x_tune, x_selected, xi, x_results>>
    /\ UNCHANGED <<mdVars, tuneVars, engVars, regVars, chainVars, batchVars>>

----------------------------------------------------------------------------
(* import_table_with_fallback *)

DEFAULT_ENGINE_ORDER == <<"pymupdf4llm", "pdfplumber">>

FallbackImportResult(engine, tables, markdown) ==
    [engine |-> engine, tables |-> tables, markdown |-> markdown]

\* Reading attribute `a` of a dataclass instance: the record's field when it has
\* one, AttributeError otherwise
GetAttr(obj, a) ==
    IF a \in DOMAIN obj THEN Ok(obj[a])
    ELSE Raise("AttributeError", <<"object has no attribute ", a>>)

\* The loop body after extract returned `rs`: "continue", or leave the
\* function by a return or a raise
Continue == [act |-> "continue"]
Leave(outcome) == [act |-> "leave", outcome |-> outcome]

Judge(rs, minrows) ==
    IF rs = <<>> THEN Continue
    ELSE LET result == rs[1]
             error == GetAttr(result, "error")
         IN  IF ~error.ok THEN Leave(error)
             ELSE IF error.val # NoneVal THEN Continue
             ELSE IF result.tables = <<>> THEN Continue
             ELSE LET first_table == result.tables[1]
                  IN  IF minrows.given /\ Len(first_table) < minrows.val THEN Continue
                      ELSE LET markdown == table_to_markdown(first_table)
                           IN  IF ~markdown.ok THEN Leave(markdown)
                               ELSE Leave(Ok(FallbackImportResult(
                                        result.engine, result.tables, markdown.val)))

\* Iterate with the unknown-engine error swallowed: the loop goes on to the next name
IterateSkippingUnknown(engs, engine_name, out, minrows) ==
    LET rs == ExtractSingle(engs, engine_name, out)
    IN  IF ~rs.ok
        THEN IF rs.exc = "ValueError" THEN Continue ELSE Leave(rs)
        ELSE Judge(rs.val, minrows)

\* One iteration of the for loop: the call of extract and what follows it
Iterate(engs, engine_name, out, minrows) ==
    LET rs == ExtractSingle(engs, engine_name, out)
    IN  IF ~rs.ok
        THEN IF rs.exc = "ValueError"
             THEN Leave(Raise("ImportError", <<"Onbekende engine opgegeven: ", engine_name>>))
             ELSE Leave(rs)
        ELSE Judge(rs.val, minrows)

ChainIdle ==
    /\ pdf_path = <<>> /\ engine_order = NoneVal /\ min_rows = NoneVal
    /\ extractor = NoneVal /\ order = <<>> /\ cpc = "idle" /\ idx = 0 /\ cres = NoneVal

\* The first three statements: the defaults of engine_order and extractor
ChainStart ==
    /\ cpc = "call"
    /\ order' = IF engine_order.given THEN engine_order.val ELSE DEFAULT_ENGINE_ORDER
    /\ engines' = IF extractor.given THEN extractor.val ELSE DefaultEngines
    /\ idx' = 1
    /\ cpc' = "loop"
    /\ UNCHANGED <<pdf_path, engine_order, min_rows, extractor, cres, calls>>
    /\ UNCHANGED <<mdVars, tuneVars, engVars, extVars, batchVars>>

\* One iteration of `for engine_name in order`
ChainIterate ==
    /\ cpc = "loop"
    /\ idx <= Len(order)
    /\ LET engine_name == order[idx]
           \* extract invokes the engine only once the selection is validated
           invoked == _validate_selection(engines, Some(<<engine_name>>)).ok
       IN  \E out \in (IF invoked THEN EngineOutcomes ELSE {NoneVal}) :
               LET step == Iterate(engines, engine_name, out, min_rows)
               IN  /\ calls' = IF invoked
                               THEN Append(calls, Invocation(Lookup(engines, engine_name),
                                                             pdf_path, out))
                               ELSE calls
                   /\ IF step.act = "continue"
                      THEN idx' = idx + 1 /\ UNCHANGED <<cpc, cres>>
                      ELSE /\ cres' = Some(step.outcome)
                           /\ cpc' = IF step.outcome.ok THEN "returned" ELSE "raised"
                           /\ UNCHANGED idx
    /\ UNCHANGED <<pdf_path, engine_order, min_rows, extractor, order, engines>>
    /\ UNCHANGED <<mdVars, tuneVars, engVars, extVars, batchVars>>

\* The loop ran out of engines
ChainExhausted ==
    /\ cpc = "loop"
    /\ idx > Len(order)
    /\ cres' = Some(Raise("ImportError",
           <<"Geen geschikte engine gevonden die een tabel met voldoende rijen kon extraheren">>))
    /\ cpc' = "raised"
    /\ UNCHANGED <<pdf_path, engine_order, min_rows, extractor, order, idx, regVars>>
    /\ UNCHANGED <<mdVars, tuneVars, engVars, extVars, batchVars>>

----------------------------------------------------------------------------
(* Paths: pathlib's name, suffix and stem, str.lower and the ordering of paths *)

\* The characters of the model in code-point order
Alphabet ==
    <<".", "0", "1", "2", "3", "4", "5", "6", "7", "8", "9",
      "A", "B", "C", "D", "E", "F", "G", "H", "I", "J", "K", "L", "M",
      "N", "O", "P", "Q", "R", "S", "T", "U", "V", "W", "X", "Y", "Z",
      "_",
      "a", "b", "c", "d", "e", "f", "g", "h", "i", "j", "k", "l", "m",
      "n", "o", "p", "q", "r", "s", "t", "u", "v", "w", "x", "y", "z">>

Code(ch) == CHOOSE i \in 1..Len(Alphabet) : Alphabet[i] = ch

FirstUpper == Code("A")
FirstLower == Code("a")

LowerChar(ch) ==
    IF Code(ch) >= FirstUpper /\ Code(ch) < FirstUpper + 26
    THEN Alphabet[Code(ch) - FirstUpper + FirstLower]
    ELSE ch

\* str.lower
Lower(str) == [i \in 1..Len(str) |-> LowerChar(str[i])]

\* name.rfind("."): 0-based, -1 when there is none
RFindDot(str) ==
    IF \E i \in 1..Len(str) : str[i] = "."
    THEN Max({i \in 1..Len(str) : str[i] = "."}) - 1
    ELSE -1

\* PurePath.suffix
PathSuffix(file) ==
    LET i == RFindDot(file)
    IN  IF 0 < i /\ i < Len(file) - 1 THEN SubSeq(file, i + 1, Len(file)) ELSE <<>>

\* PurePath.stem
PathStem(file) ==
    LET i == RFindDot(file)
    IN  IF 0 < i /\ i < Len(file) - 1 THEN SubSeq(file, 1, i) ELSE file

RECURSIVE StrLess(_, _)
\* a < b for strings
StrLess(a, b) ==
    IF b = <<>> THEN FALSE
    ELSE IF a = <<>> THEN TRUE
    ELSE IF a[1] # b[1] THEN Code(a[1]) < Code(b[1])
    ELSE StrLess(Tail(a), Tail(b))

RECURSIVE Sorted(_)
\* sorted(S) for a set of strings
Sorted(S) ==
    IF S = {} THEN <<>>
    ELSE LET least == CHOOSE a \in S : \A b \in S \ {a} : StrLess(a, b)
         IN  <<least>> \o Sorted(S \ {least})

DotPdf == <<".", "p", "d", "f">>

\* IsPdf on the end of the whole name instead of the suffix: file.name.lower().endswith(".pdf")
IsPdfByNameEnd(file) ==
    /\ Len(file) >= 4
    /\ Lower(SubSeq(file, Len(file) - 3, Len(file))) = DotPdf

\* file.suffix.lower() == ".pdf"
IsPdf(file) == Lower(PathSuffix(file)) = DotPdf

----------------------------------------------------------------------------
(* import_directory_with_fallback *)

SheetNameCap == 31

ResultWord == <<"r", "e", "s", "u", "l", "t">>

Underscore == <<"_">>

\* Suffixed without the cut of the name: f"{name}{suffix_str}"
SuffixedUncut(nm, n) == nm \o Underscore \o Decimal(n)

\* f"{name[: 31 - len(suffix_str)]}{suffix_str}"
Suffixed(nm, n) ==
    LET suffix_str == Underscore \o Decimal(n)
    IN  Prefix(nm, SheetNameCap - Len(suffix_str)) \o suffix_str

Sheet(title, rows) == [title |-> title, rows |-> rows]

\* worksheet.append(row) on the sheet created last
AppendRows(wb, rows) ==
    [wb EXCEPT ![Len(wb)] = Sheet(wb[Len(wb)].title, wb[Len(wb)].rows \o rows)]

\* The rows written for a result: the engine, a blank row, and per table its
\* header, its rows and a blank row
RECURSIVE TableRows(_, _)
TableRows(tables, k) ==
    IF k > Len(tables) THEN <<>>
    ELSE << << <<"Table ", Decimal(k)>> >> >>
             \o [r \in 1..Len(tables[k]) |->
                    [c \in 1..Len(tables[k][r]) |-> tables[k][r][c].text]]
             \o <<<<>>>> \o TableRows(tables, k + 1)

ResultRows(result) ==
    <<<<"Engine", result.engine>>, <<>>>> \o TableRows(result.tables, 1)

\* results[key] = value: a dict keeps the position of a key it has
DictSet(d, key, value) ==
    IF \E i \in 1..Len(d) : d[i].key = key
    THEN [i \in 1..Len(d) |-> IF d[i].key = key THEN [key |-> key, value |-> value] ELSE d[i]]
    ELSE Append(d, [key |-> key, value |-> value])

\* The statements up to the for loop: the listing, the precondition, the workbook
BatchStart ==
    /\ bpc = "call"
    /\ engines' = IF extractor.given THEN extractor.val ELSE DefaultEngines
    /\ extractor' = Some(engines')
    /\ pdf_files' = Sorted({file \in input_dir : IsPdf(file)})
    /\ IF pdf_files' = <<>>
       THEN /\ bres' = Some(Raise("ValueError", <<"Geen PDF-bestanden gevonden in ">>))
            /\ bpc' = "raised"
            /\ UNCHANGED di
       ELSE /\ bpc' = "for"
            /\ di' = 1
            /\ UNCHANGED bres
    /\ UNCHANGED <<input_dir, name, candidate, suffix, sheet_names, workbook, results, saved>>
    /\ UNCHANGED <<pdf_path, engine_order, min_rows, order, cpc, idx, cres, calls>>
    /\ UNCHANGED <<mdVars, tuneVars, engVars, extVars>>

\* `for pdf in pdf_files`: the call of unique_sheet_name up to its while loop
BatchNextPdf ==
    /\ bpc = "for"
    /\ di <= Len(pdf_files)
    /\ LET base == PathStem(pdf_files[di])
       IN  name' = IF Prefix(base, SheetNameCap) # <<>>
                   THEN Prefix(base, SheetNameCap) ELSE ResultWord
    /\ candidate' = name'
    /\ suffix' = 1
    /\ bpc' = "while"
    /\ UNCHANGED <<input_dir, pdf_files, di, sheet_names, workbook, results, saved, bres>>
    /\ UNCHANGED <<mdVars, tuneVars, engVars, regVars, extVars, chainVars>>

\* One iteration of `while candidate in existing`
BatchRename ==
    /\ bpc = "while"
    /\ candidate \in sheet_names
    /\ candidate' = Suffixed(name, suffix)
    /\ suffix' = suffix + 1
    /\ UNCHANGED <<input_dir, bpc, pdf_files, di, name, sheet_names, workbook, results,
                   saved, bres>>
    /\ UNCHANGED <<mdVars, tuneVars, engVars, regVars, extVars, chainVars>>

\* unique_sheet_name returns: the label is recorded, the sheet is created and
\* import_table_with_fallback is called for the document
BatchSheet ==
    /\ bpc = "while"
    /\ candidate \notin sheet_names
    /\ sheet_names' = sheet_names \cup {candidate}
    /\ workbook' = Append(workbook, Sheet(candidate, <<>>))
    /\ pdf_path' = pdf_files[di]
    /\ cpc' = "call"
    /\ cres' = NoneVal
    /\ bpc' = "try"
    /\ UNCHANGED <<input_dir, pdf_files, di, name, candidate, suffix, results, saved, bres>>
    /\ UNCHANGED <<engine_order, min_rows, extractor, order, idx>>
    /\ UNCHANGED <<mdVars, tuneVars, engVars, regVars, extVars>>

\* The chain came back: the rest of the try statement
BatchRecord ==
    /\ bpc = "try"
    /\ cpc \in {"returned", "raised"}
    /\ cpc' = "idle"
    /\ IF cres.val.ok
       THEN /\ results' = DictSet(results, pdf_files[di], cres.val.val)
            /\ workbook' = AppendRows(workbook, ResultRows(cres.val.val))
            /\ di' = di + 1
            /\ bpc' = "for"
            /\ UNCHANGED bres
       ELSE IF cres.val.exc = "ImportError"
       THEN /\ results' = DictSet(results, pdf_files[di], cres.val)
            /\ workbook' = AppendRows(workbook, <<<<"Fout", cres.val.msg>>>>)
            /\ di' = di + 1
            /\ bpc' = "for"
            /\ UNCHANGED bres
       ELSE /\ bres' = Some(cres.val)
            /\ bpc' = "raised"
            /\ UNCHANGED <<results, workbook, di>>
    /\ UNCHANGED <<input_dir, pdf_files, name, candidate, suffix, sheet_names, saved>>
    /\ UNCHANGED <<pdf_path, engine_order, min_rows, extractor, order, idx, cres>>
    /\ UNCHANGED <<mdVars, tuneVars, engVars, regVars, extVars>>

\* After the loop: workbook.save and the return
BatchSave ==
    /\ bpc = "for"
    /\ di > Len(pdf_files)
    /\ saved' = TRUE
    /\ bres' = Some(Ok(results))
    /\ bpc' = "returned"
    /\ UNCHANGED <<input_dir, pdf_files, di, name, candidate, suffix, sheet_names,
                   workbook, results>>
    /\ UNCHANGED <<mdVars, tuneVars, engVars, regVars, extVars, chainVars>>

----------------------------------------------------------------------------
(* Inputs of the fallback chain *)

StubEngineNames == {"pymupdf4llm", "pdfplumber"}

\* Extractors built as the test-suite's StubExtractor builds them
StubRegistries ==
    {RegisterAll(<<>>, [i \in 1..Len(ns) |-> Engine(ns[i], i)]) :
        ns \in SeqsUpTo(StubEngineNames, MaxReg)}

OrderNames == StubEngineNames \cup {"bogus"}

DummyPdf == <<"d", "u", "m", "m", "y", ".", "p", "d", "f">>

ChainInit ==
    /\ pdf_path = DummyPdf
    /\ engine_order \in {NoneVal} \cup {Some(o) : o \in SeqsUpTo(OrderNames, MaxOrder)}
    /\ min_rows \in {NoneVal} \cup {Some(n) : n \in 0..MaxMinRows}
    /\ extractor \in {NoneVal} \cup {Some(r) : r \in StubRegistries}
    /\ order = <<>> /\ cpc = "call" /\ idx = 0 /\ cres = NoneVal

RegIdle == engines = <<>> /\ calls = <<>>

ExtIdle ==
    /\ x_names = NoneVal /\ x_tune = FALSE /\ xpc = "idle" /\ x_selected = <<>>
    /\ xi = 0 /\ x_results = <<>> /\ x_out = NoneVal

BatchIdle ==
    /\ input_dir = {} /\ bpc = "idle" /\ pdf_files = <<>> /\ di = 0
    /\ name = <<>> /\ candidate = <<>> /\ suffix = 0 /\ sheet_names = {}
    /\ workbook = <<>> /\ results = <<>> /\ saved = FALSE /\ bres = NoneVal

----------------------------------------------------------------------------
(* Inputs of the batch *)

Rep(ch, n) == [i \in 1..n |-> ch]

\* Entries a directory may hold: documents whose stems collide as they are or once
\* cut to the cap, a stem that looks like a suffixed label, extensions in either
\* case, and entries that are no PDF documents
DirUniverse ==
    { <<"a">> \o DotPdf,
      <<"a", ".", "P", "D", "F">>,
      <<"a", "_", "1">> \o DotPdf,
      Rep("a", SheetNameCap - 2) \o <<"_", "1">> \o DotPdf,
      Rep("a", SheetNameCap) \o DotPdf,
      Rep("a", SheetNameCap + 1) \o DotPdf,
      <<"n", "o", "t", "e", "s", ".", "t", "x", "t">>,
      DotPdf }

BatchInit ==
    /\ input_dir \in {d \in SUBSET DirUniverse : Cardinality(d) <= MaxDocs}
    /\ engine_order \in {NoneVal} \cup {Some(o) : o \in SeqsUpTo(OrderNames, MaxBatchOrder)}
    /\ min_rows \in {NoneVal, Some(10)}
    /\ extractor \in {NoneVal, Some(RegisterAll(<<>>, <<Engine("pymupdf4llm", 1),
                                                        Engine("pdfplumber", 2)>>))}
    /\ bpc = "call" /\ pdf_files = <<>> /\ di = 0
    /\ name = <<>> /\ candidate = <<>> /\ suffix = 0 /\ sheet_names = {}
    /\ workbook = <<>> /\ results = <<>> /\ saved = FALSE /\ bres = NoneVal
    /\ pdf_path = <<>> /\ order = <<>> /\ cpc = "idle" /\ idx = 0 /\ cres = NoneVal

----------------------------------------------------------------------------
(* Inputs of TableExtractor.extract *)

\* A default extractor or an empty one, with up to MaxReg further registrations
ExtractRegistries ==
    {RegisterAll(base, [i \in 1..Len(ns) |-> Engine(ns[i], Len(base) + i)]) :
        base \in {<<>>, DefaultEngines}, ns \in SeqsUpTo(StubEngineNames, MaxReg)}

ExtractInit ==
    /\ engines \in ExtractRegistries
    /\ calls = <<>>
    /\ x_names \in {NoneVal} \cup {Some(ns) : ns \in SeqsUpTo(OrderNames, MaxSel)}
    /\ x_tune \in BOOLEAN
    /\ xpc = "call" /\ x_selected = <<>> /\ xi = 0 /\ x_results = <<>> /\ x_out = NoneVal

\* The chain's variables while extract is called directly on a document
ChainIdleOn(pdf) ==
    /\ pdf_path = pdf /\ engine_order = NoneVal /\ min_rows = NoneVal
    /\ extractor = NoneVal /\ order = <<>> /\ cpc = "idle" /\ idx = 0 /\ cres = NoneVal

----------------------------------------------------------------------------
(* PDFPlumberTableEngine.tune_to_reference and _recursive_snap_search *)

\* A snap_tolerance is held as a whole number of 1/128: the brackets below and
\* every midpoint reached from them are exact in this unit, as they are in a float
SnapScale == 128

\* PDFPlumberTableEngine.__init__: min_words = 2, snap_tolerance = 3.0
DefaultMinWords == 2
DefaultSnapTolerance == 3 * SnapScale

\* tune_to_reference: snap_range = (1.0, 12.0)
DefaultSnapRange == <<1 * SnapScale, 12 * SnapScale>>

\* The width 0.25 under which the search stops
MinWidth == SnapScale \div 4

Abs(n) == IF n < 0 THEN -n ELSE n

_score_settings(tables, reference) == Abs(Len(tables) - Len(reference))

RECURSIVE SortedInts(_)
\* sorted(S) for a set of integers
SortedInts(S) ==
    IF S = {} THEN <<>>
    ELSE LET least == CHOOSE x \in S : \A y \in S : x <= y
         IN  <<least>> \o SortedInts(S \ {least})

\* sorted(set(candidates)): the options of the caller, if any, and self.min_words
Candidates(options, own) ==
    LET listed == IF options.given /\ options.val # <<>>
                  THEN Append(options.val, own)
                  ELSE <<own>>
    IN  SortedInts({listed[i] : i \in 1..Len(listed)})

\* The comparison of the search with a tie replacing the best so far
BeatsOrTies(score, than) == ~than.given \/ score <= than.val

\* The comparison of the search turned round: a higher score replaces the best
BeatenBy(score, than) == ~than.given \/ score > than.val

\* score < best[0] and tuned_candidate[0] < best_score, best_score being
\* float("inf") (NoneVal) until a candidate was searched
Beats(score, than) == ~than.given \/ score < than.val

\* The end of the recursion with the depth left out of the test
StopsWhateverDepth(score, d, maxd, range) ==
    score = 0 \/ range[2] - range[1] < MinWidth

\* if score == 0 or depth >= max_depth or snap_range[1] - snap_range[0] < 0.25
Stops(score, d, maxd, range) ==
    score = 0 \/ d >= maxd \/ range[2] - range[1] < MinWidth

\* mid_snap = (snap_range[0] + snap_range[1]) / 2
MidSnap(range) == (range[1] + range[2]) \div 2

\* The next bracket with the halves exchanged
NextRangeSwapped(tables, reference, range) ==
    IF Len(tables) > Len(reference)
    THEN <<range[1], MidSnap(range)>>
    ELSE <<MidSnap(range), range[2]>>

\* next_range of _recursive_snap_search
NextRange(tables, reference, range) ==
    IF Len(tables) > Len(reference)
    THEN <<MidSnap(range), range[2]>>
    ELSE <<range[1], MidSnap(range)>>

\* The list _extract_with_settings builds in the k-th trial when pdfplumber finds
\* n tables: the cells carry the number of the trial, lists of different trials
\* that hold a table differ
TrialTables(k, n) == [i \in 1..n |-> <<<<Cell(Decimal(k))>>>>]

\* The numbers of tables a trial can find
TableCounts == {0, 1, 2, 3}

\* What the k-th call of _extract_with_settings does: its tables, or the error
\* pdfplumber raised on the document
TrialOutcomes(k) ==
    {Ok(TrialTables(k, n)) : n \in TableCounts}
        \cup {Raise("RuntimeError", <<"engine failure">>)}

\* One entry of the log: the settings of the trial, whether it is the initial
\* trial of a candidate or a step of the search, the candidate, and for a step
\* the depth and the bracket of the frame
Trial(settings, kind, cand, d, range, out) ==
    [settings |-> settings, kind |-> kind, cand |-> cand, depth |-> d,
     bracket |-> range, out |-> out]

\* tune_to_reference up to its for loop
TuneStart ==
    /\ tpc = "call"
    /\ candidates' = Candidates(min_word_options, self_settings.min_words)
    /\ best_overall' = [score |-> NoneVal, settings |-> self_settings, tables |-> <<>>]
    /\ ci' = 1
    /\ tpc' = "for"
    /\ UNCHANGED <<self_settings, reference_tables, snap_range, max_depth,
                   min_word_options, bracket, depth, best, trials, t_out>>
    /\ UNCHANGED <<mdVars, regVars, extVars, chainVars, batchVars, engVars>>

\* `for min_words in sorted(set(candidates))`: the initial trial of a candidate and
\* the call of _recursive_snap_search with depth 0
TuneInitial ==
    /\ tpc = "for"
    /\ ci <= Len(candidates)
    /\ LET initial_settings ==
               PDFPlumberSettings(candidates[ci], self_settings.snap_tolerance)
       IN  \E out \in TrialOutcomes(Len(trials) + 1) :
               /\ trials' = Append(trials,
                      Trial(initial_settings, "initial", ci, 0, snap_range, out))
               /\ IF ~out.ok
                  THEN /\ t_out' = Some(out)
                       /\ tpc' = "raised"
                       /\ UNCHANGED <<bracket, depth, best>>
                  ELSE /\ best' = [score |-> _score_settings(out.val, reference_tables),
                                   settings |-> initial_settings,
                                   tables |-> out.val]
                       /\ bracket' = snap_range
                       /\ depth' = 0
                       /\ tpc' = "search"
                       /\ UNCHANGED t_out
    /\ UNCHANGED <<self_settings, reference_tables, snap_range, max_depth,
                   min_word_options, candidates, ci, best_overall>>
    /\ UNCHANGED <<mdVars, regVars, extVars, chainVars, batchVars, engVars>>

\* One frame of _recursive_snap_search: the trial at the midpoint, then either the
\* recursive call or the return to tune_to_reference, which keeps the tuned
\* candidate if it beats the best of the earlier candidates
SearchStep ==
    /\ tpc = "search"
    /\ LET trial_settings == PDFPlumberSettings(candidates[ci], MidSnap(bracket))
       IN  \E out \in TrialOutcomes(Len(trials) + 1) :
               /\ trials' = Append(trials,
                      Trial(trial_settings, "search", ci, depth, bracket, out))
               /\ IF ~out.ok
                  THEN /\ t_out' = Some(out)
                       /\ tpc' = "raised"
                       /\ UNCHANGED <<bracket, depth, best, best_overall, ci>>
                  ELSE LET score == _score_settings(out.val, reference_tables)
                           kept == IF Beats(score, Some(best.score))
                                   THEN [score |-> score, settings |-> trial_settings,
                                         tables |-> out.val]
                                   ELSE best
                       IN  /\ best' = kept
                           /\ UNCHANGED t_out
                           /\ IF Stops(score, depth, max_depth, bracket)
                              THEN /\ best_overall' =
                                          IF Beats(kept.score, best_overall.score)
                                          THEN [score |-> Some(kept.score),
                                                settings |-> kept.settings,
                                                tables |-> kept.tables]
                                          ELSE best_overall
                                   /\ ci' = ci + 1
                                   /\ tpc' = "for"
                                   /\ UNCHANGED <<bracket, depth>>
                              ELSE /\ bracket' = NextRange(out.val, reference_tables, bracket)
                                   /\ depth' = depth + 1
                                   /\ UNCHANGED <<best_overall, ci, tpc>>
    /\ UNCHANGED <<self_settings, reference_tables, snap_range, max_depth,
                   min_word_options, candidates>>
    /\ UNCHANGED <<mdVars, regVars, extVars, chainVars, batchVars, engVars>>

\* return best_tables, best_settings
TuneReturn ==
    /\ tpc = "for"
    /\ ci > Len(candidates)
    /\ t_out' = Some(Ok([tables |-> best_overall.tables,
                         settings |-> best_overall.settings]))
    /\ tpc' = "returned"
    /\ UNCHANGED <<self_settings, reference_tables, snap_range, max_depth,
                   min_word_options, candidates, ci, best_overall, bracket, depth,
                   best, trials>>
    /\ UNCHANGED <<mdVars, regVars, extVars, chainVars, batchVars, engVars>>

(* Inputs of tune_to_reference *)

MaxDepth == 4       \* largest max_depth a caller passes
MaxTrials == 6      \* most trials one call of tune_to_reference can come to make

\* The reference engine found no table, or two
ReferenceLists == {<<>>, [i \in 1..2 |-> BuildTable(3, 2)]}

\* The default bracket, and one so narrow that its width falls under 0.25 within
\* two halvings
SnapRanges == {DefaultSnapRange, <<1 * SnapScale, (3 * SnapScale) \div 2>>}

\* min_word_options: none, an empty list, the default itself, values around the
\* default out of order, a value given twice
MinWordOptions ==
    {NoneVal, Some(<<>>), Some(<<2>>), Some(<<3>>), Some(<<3, 1>>), Some(<<1, 1>>)}

TuneIdle ==
    /\ self_settings = PDFPlumberSettings(DefaultMinWords, DefaultSnapTolerance)
    /\ reference_tables = <<>> /\ snap_range = DefaultSnapRange /\ max_depth = 0
    /\ min_word_options = NoneVal /\ tpc = "idle" /\ candidates = <<>> /\ ci = 0
    /\ best_overall = NoneVal /\ bracket = DefaultSnapRange /\ depth = 0
    /\ best = NoneVal /\ trials = <<>> /\ t_out = NoneVal

TuneInit ==
    /\ self_settings = PDFPlumberSettings(DefaultMinWords, DefaultSnapTolerance)
    /\ reference_tables \in ReferenceLists
    /\ snap_range \in SnapRanges
    /\ max_depth \in 0..MaxDepth
    /\ min_word_options \in MinWordOptions
    /\ Len(Candidates(min_word_options, self_settings.min_words)) * (max_depth + 2)
           <= MaxTrials
    /\ tpc = "call" /\ candidates = <<>> /\ ci = 0
    /\ best_overall = NoneVal /\ bracket = DefaultSnapRange /\ depth = 0
    /\ best = NoneVal /\ trials = <<>> /\ t_out = NoneVal

----------------------------------------------------------------------------
(* The engines and their backends: which modules can be imported is fixed by *)
(* the installation; the handles an engine creates lazily stay with the      *)
(* engine instance                                                           *)

\* The modules the engines import, apart from numpy
Modules == {"pdfplumber", "fitz", "easyocr", "pymupdf4llm", "docling", "camelot"}

NotInstalled(module) == <<module, " is niet geïnstalleerd">>

\* A table as a backend hands it over: rows of cell texts
RawTable(rows, cols) ==
    [r \in 1..rows |-> [c \in 1..cols |-> <<"r">> \o Decimal(r - 1) \o <<"c">> \o Decimal(c - 1)]]

\* What a backend that is present does with a document: it finds no table, a
\* table, a table without rows before a table, or it fails on the document
BackendOutcomes ==
    {Ok(<<>>), Ok(<<RawTable(3, 2)>>), Ok(<<RawTable(0, 2), RawTable(3, 2)>>),
     Raise("ValueError", <<"bad document">>)}

\* [[Cell(text=cell) for cell in row] for row in raw]
ToCells(raw) == [r \in 1..Len(raw) |-> [c \in 1..Len(raw[r]) |-> Cell(raw[r][c])]]

\* The tables of a backend with those without rows left out
NonEmptyTables(found) ==
    LET kept == SelectSeq(found, LAMBDA raw : raw # <<>>)
    IN  [i \in 1..Len(kept) |-> ToCells(kept[i])]

\* The tables of a backend converted one by one, none left out
AllTables(found) == [i \in 1..Len(found) |-> ToCells(found[i])]

\* What an engine returns when its backend did `out`: the error goes through,
\* the tables found are converted by the engine's own loop
Through(out, tables) == IF ~out.ok THEN out ELSE Ok(tables)

\* PDFPlumberTableEngine._extract_with_settings: `if table: tables.append(table)`
PDFPlumberTables(out) == Through(out, IF out.ok THEN NonEmptyTables(out.val) ELSE <<>>)

\* EasyOCRTableEngine.extract: a page makes a table only `if boxes`
EasyOCRTables(out) == Through(out, IF out.ok THEN NonEmptyTables(out.val) ELSE <<>>)

\* DoclingTableEngine.extract: `if not matrix: continue`
DoclingTables(out) == Through(out, IF out.ok THEN NonEmptyTables(out.val) ELSE <<>>)

\* CamelotTableEngine.extract: every table of the collection is appended
CamelotTables(out) == Through(out, IF out.ok THEN AllTables(out.val) ELSE <<>>)

\* PyMuPDF4LLMTableEngine: min_columns = 2
DefaultMinColumns == 2

\* _extract_with_pymupdf and _finalize_table: a table is kept if it has rows and
\* one of them has min_columns cells
PyMuPDFTables(out) ==
    Through(out,
        IF out.ok
        THEN LET kept == SelectSeq(out.val,
                             LAMBDA raw : /\ raw # <<>>
                                          /\ \E r \in 1..Len(raw) :
                                                 Len(raw[r]) >= DefaultMinColumns)
             IN  [i \in 1..Len(kept) |-> ToCells(kept[i])]
        ELSE <<>>)

\* What a lazy step yields: the outcome (the handle, or the error raised), the
\* field of the instance afterwards and whether a handle was created
Ensured(out, field, created) == [out |-> out, field |-> field, created |-> created]

\* _ensure_reader with the reader built anew on every call
_ensure_reader_anew(reader, inst, fresh, constructed) ==
    IF "easyocr" \notin inst
    THEN Ensured(Raise("ModuleNotFoundError", <<"No module named ", "easyocr">>),
                 reader, FALSE)
    ELSE IF ~constructed
    THEN Ensured(Raise("RuntimeError", <<"reader failure">>), reader, FALSE)
    ELSE Ensured(Ok(fresh), Some(fresh), TRUE)

\* EasyOCRTableEngine._ensure_reader: `fresh` is the Reader the constructor would
\* return, `constructed` whether the constructor returns
_ensure_reader(reader, inst, fresh, constructed) ==
    IF reader.given THEN Ensured(Ok(reader.val), reader, FALSE)
    ELSE IF "easyocr" \notin inst
    THEN Ensured(Raise("ModuleNotFoundError", <<"No module named ", "easyocr">>),
                 reader, FALSE)
    ELSE IF ~constructed
    THEN Ensured(Raise("RuntimeError", <<"reader failure">>), reader, FALSE)
    ELSE Ensured(Ok(fresh), Some(fresh), TRUE)

\* DoclingTableEngine._ensure_converter
_ensure_converter(converter, inst, fresh, constructed) ==
    IF "docling" \notin inst
    THEN Ensured(Raise("RuntimeError", NotInstalled("docling")), converter, FALSE)
    ELSE IF converter.given THEN Ensured(Ok(converter.val), converter, FALSE)
    ELSE IF ~constructed
    THEN Ensured(Raise("RuntimeError", <<"converter failure">>), converter, FALSE)
    ELSE Ensured(Ok(fresh), Some(fresh), TRUE)

\* CamelotTableEngine._patch_tempdir: `current` is the class installed in
\* camelot.utils, `fresh` the _ImmediateTempDir class this call would define
_patch_tempdir(patched, current, fresh) ==
    IF patched THEN Ensured(Ok(current), TRUE, FALSE)
    ELSE Ensured(Ok(fresh), TRUE, TRUE)

\* PyMuPDF4LLMTableEngine.extract: `native` is what fitz does with the document,
\* `converted` what pymupdf4llm.to_markdown and _markdown_to_tables come to
PyMuPDF4LLMOutcome(inst, native, converted) ==
    LET tables == IF "fitz" \notin inst THEN Ok(<<>>) ELSE PyMuPDFTables(native)
    IN  IF ~tables.ok THEN tables
        ELSE IF tables.val # <<>> THEN tables
        ELSE IF "pymupdf4llm" \notin inst
        THEN Raise("RuntimeError", NotInstalled("pymupdf4llm"))
        ELSE PyMuPDFTables(converted)

\* The call comes to pymupdf4llm.to_markdown: the native detector gave no table
\* that was kept and the module is there
ReachesToMarkdown(inst, native) ==
    /\ "pymupdf4llm" \in inst
    /\ "fitz" \in inst => (native.ok /\ PyMuPDFTables(native).val = <<>>)

\* One entry of the log of extract calls: the engine, what the call did, the
\* handle it worked with (NoneVal if it got none) and whether it created it
ExtractCall(engine, out, handle, created) ==
    [engine |-> engine, out |-> out, handle |-> handle, created |-> created]

\* A handle: what was created and which creation it was
Handle(kind) == [kind |-> kind, id |-> Len(handles) + 1]

MaxCalls == 3       \* extract calls made on the engines in one run

\* PDFPlumberTableEngine.extract; the class exists only if pdfplumber imports
PDFPlumberExtract ==
    /\ Len(e_calls) < MaxCalls
    /\ "pdfplumber" \in installed
    /\ \E out \in BackendOutcomes :
           e_calls' = Append(e_calls,
               ExtractCall("pdfplumber", PDFPlumberTables(out), NoneVal, FALSE))
    /\ UNCHANGED <<installed, _reader, _converter, _patched_tempdir, TemporaryDirectory,
                   handles>>
    /\ UNCHANGED <<mdVars, regVars, extVars, chainVars, batchVars, tuneVars>>

\* EasyOCRTableEngine.extract; the class exists only if fitz imports
EasyOCRExtract ==
    /\ Len(e_calls) < MaxCalls
    /\ "fitz" \in installed
    /\ \E constructed \in BOOLEAN, read \in BackendOutcomes :
           LET reader == _ensure_reader(_reader, installed, Handle("Reader"), constructed)
           IN  /\ _reader' = reader.field
               /\ handles' = IF reader.created
                             THEN Append(handles, Handle("Reader")) ELSE handles
               /\ e_calls' = Append(e_calls,
                      IF ~reader.out.ok
                      THEN ExtractCall("easyocr", reader.out, NoneVal, FALSE)
                      ELSE ExtractCall("easyocr", EasyOCRTables(read), Some(reader.out.val),
                                       reader.created))
    /\ UNCHANGED <<installed, _converter, _patched_tempdir, TemporaryDirectory>>
    /\ UNCHANGED <<mdVars, regVars, extVars, chainVars, batchVars, tuneVars>>

\* DoclingTableEngine.extract
DoclingExtract ==
    /\ Len(e_calls) < MaxCalls
    /\ \E constructed \in BOOLEAN, converted \in BackendOutcomes :
           LET converter == _ensure_converter(_converter, installed,
                                              Handle("DocumentConverter"), constructed)
           IN  /\ _converter' = converter.field
               /\ handles' = IF converter.created
                             THEN Append(handles, Handle("DocumentConverter"))
                             ELSE handles
               /\ e_calls' = Append(e_calls,
                      IF ~converter.out.ok
                      THEN ExtractCall("docling", converter.out, NoneVal, FALSE)
                      ELSE ExtractCall("docling", DoclingTables(converted),
                                       Some(converter.out.val),
                                       converter.created))
    /\ UNCHANGED <<installed, _reader, _patched_tempdir, TemporaryDirectory>>
    /\ UNCHANGED <<mdVars, regVars, extVars, chainVars, batchVars, tuneVars>>

\* CamelotTableEngine.extract
CamelotExtract ==
    /\ Len(e_calls) < MaxCalls
    /\ IF "camelot" \notin installed
       THEN /\ e_calls' = Append(e_calls,
                    ExtractCall("camelot", Raise("RuntimeError", NotInstalled("camelot")),
                                NoneVal, FALSE))
            /\ UNCHANGED <<_patched_tempdir, TemporaryDirectory, handles>>
       ELSE \E read \in BackendOutcomes :
                LET patch == _patch_tempdir(_patched_tempdir, TemporaryDirectory,
                                            Handle("_ImmediateTempDir"))
                IN  /\ _patched_tempdir' = patch.field
                    /\ TemporaryDirectory' = patch.out.val
                    /\ handles' = IF patch.created
                                  THEN Append(handles, Handle("_ImmediateTempDir"))
                                  ELSE handles
                    /\ e_calls' = Append(e_calls,
                           ExtractCall("camelot", CamelotTables(read), Some(patch.out.val),
                                       patch.created))
    /\ UNCHANGED <<installed, _reader, _converter>>
    /\ UNCHANGED <<mdVars, regVars, extVars, chainVars, batchVars, tuneVars>>

\* PyMuPDF4LLMTableEngine.extract
PyMuPDF4LLMExtract ==
    /\ Len(e_calls) < MaxCalls
    /\ \E native \in BackendOutcomes :
       \E converted \in (IF ReachesToMarkdown(installed, native)
                         THEN BackendOutcomes ELSE {Ok(<<>>)}) :
           e_calls' = Append(e_calls,
               ExtractCall("pymupdf4llm",
                           PyMuPDF4LLMOutcome(installed, native, converted),
                           NoneVal, FALSE))
    /\ UNCHANGED <<installed, _reader, _converter, _patched_tempdir, TemporaryDirectory,
                   handles>>
    /\ UNCHANGED <<mdVars, regVars, extVars, chainVars, batchVars, tuneVars>>

\* camelot.utils.TemporaryDirectory before any patch
CamelotTemporaryDirectory == [kind |-> "camelot.utils.TemporaryDirectory", id |-> 0]

EngIdle ==
    /\ installed = {} /\ _reader = NoneVal /\ _converter = NoneVal
    /\ _patched_tempdir = FALSE /\ TemporaryDirectory = CamelotTemporaryDirectory
    /\ handles = <<>> /\ e_calls = <<>>

\* Fresh engine instances on an installation with any of the modules
EngInit ==
    /\ installed \in SUBSET Modules
    /\ _reader = NoneVal /\ _converter = NoneVal
    /\ _patched_tempdir = FALSE /\ TemporaryDirectory = CamelotTemporaryDirectory
    /\ handles = <<>> /\ e_calls = <<>>

----------------------------------------------------------------------------
(* Specifications *)

InitMarkdown == MdInit /\ RegIdle /\ ExtIdle /\ ChainIdle /\ BatchIdle /\ TuneIdle /\ EngIdle
NextMarkdown == Render
SpecMarkdown == InitMarkdown /\ [][NextMarkdown]_vars

InitChain == MdIdle /\ RegIdle /\ ExtIdle /\ ChainInit /\ BatchIdle /\ TuneIdle /\ EngIdle
NextChain == ChainStart \/ ChainIterate \/ ChainExhausted
SpecChain == InitChain /\ [][NextChain]_vars

InitExtract == MdIdle /\ ExtractInit /\ ChainIdleOn(DummyPdf) /\ BatchIdle /\ TuneIdle /\ EngIdle
NextExtract ==
    ExtractValidate \/ ExtractReference \/ ExtractTune \/ ExtractRun \/ ExtractReturn
SpecExtract == InitExtract /\ [][NextExtract]_vars

InitTune == MdIdle /\ RegIdle /\ ExtIdle /\ ChainIdle /\ BatchIdle /\ TuneInit /\ EngIdle
NextTune == TuneStart \/ TuneInitial \/ SearchStep \/ TuneReturn
SpecTune == InitTune /\ [][NextTune]_vars

InitEngines ==
    MdIdle /\ RegIdle /\ ExtIdle /\ ChainIdle /\ BatchIdle /\ TuneIdle /\ EngInit
NextEngines ==
    \/ PDFPlumberExtract \/ EasyOCRExtract \/ DoclingExtract
    \/ CamelotExtract \/ PyMuPDF4LLMExtract
SpecEngines == InitEngines /\ [][NextEngines]_vars

InitBatch == MdIdle /\ RegIdle /\ ExtIdle /\ BatchInit /\ TuneIdle /\ EngIdle
NextBatch ==
    \/ BatchStart \/ BatchNextPdf \/ BatchRename \/ BatchSheet
    \/ ChainStart \/ ChainIterate \/ ChainExhausted
    \/ BatchRecord \/ BatchSave
SpecBatch == InitBatch /\ [][NextBatch]_vars

----------------------------------------------------------------------------
(* Properties of the fallback chain, checked under SpecChain *)

ChainDone == cpc \in {"returned", "raised"}

\* An engine outcome that clears the quality bar: at least one table, and a first
\* table of at least min_rows rows when min_rows is given
Qualifies(out, minrows) ==
    /\ out.ok
    /\ out.val # <<>>
    /\ minrows.given => Len(out.val[1]) >= minrows.val

Returned(engine, tables) ==
    /\ cpc = "returned"
    /\ cres.val.ok
    /\ cres.val.val.engine = engine
    /\ cres.val.val.tables = tables

\* C1: the chain returns the result of the first engine, in list order, whose result
\* qualifies, and invokes no engine after it: an invocation with a qualifying
\* outcome is the last one and its result is what the chain returns, and the
\* chain returns nothing else.
C1_ReturnsFirstQualifying ==
    /\ \A i \in 1..Len(calls) :
           Qualifies(calls[i].out, min_rows) =>
               /\ i = Len(calls)
               /\ Returned(calls[i].engine, calls[i].out.val)
    /\ cpc = "returned" => Len(calls) > 0 /\ Qualifies(calls[Len(calls)].out, min_rows)

\* The error of a chain that ran out of engines
Exhaustion ==
    Raise("ImportError",
          <<"Geen geschikte engine gevonden die een tabel met voldoende rijen kon extraheren">>)

\* C2: when every engine of the order was run and none of them qualified, the chain
\* has failed with the exhaustion error having tried every engine of the order.
C2_ExhaustionWhenNoneQualifies ==
    ( /\ ChainDone
      /\ \A k \in 1..Len(order) : order[k] \in Names(engines)
      /\ \A i \in 1..Len(calls) : calls[i].out.ok /\ ~Qualifies(calls[i].out, min_rows) )
    => /\ cres.val = Exhaustion
       /\ Len(calls) = Len(order)

\* C3: with min_rows omitted, a first engine whose first table has 5 rows is not
\* accepted: the chain goes on to the next engine of the order, and when that one
\* returns a first table of 11 rows the result is attributed to it.
C3_FiveRowsNotAcceptedByDefault ==
    ( /\ ChainDone
      /\ ~min_rows.given
      /\ Len(order) >= 2 /\ order[1] \in Names(engines) /\ order[2] \in Names(engines)
      /\ Len(calls) >= 1 /\ calls[1].out = Ok(<<BuildTable(5, 2)>>) )
    => /\ Len(calls) >= 2
       /\ calls[2].out = Ok(<<BuildTable(11, 2)>>)
              => Returned(calls[2].engine, calls[2].out.val)

\* The position in `order` at which the chain meets a name that is not registered
UnknownAt(k) ==
    /\ k \in 1..Len(order)
    /\ order[k] \notin Names(engines)

\* C4: at an unregistered name the chain fails at once with the error naming that
\* name: it never moves past that position, invokes no engine at or after it, and
\* having stopped there it has raised ImportError with exactly that name.
C4_UnknownEngineFailsAtOnce ==
    cpc \in {"loop", "returned", "raised"} =>
        \A k \in 1..Len(order) :
            UnknownAt(k) =>
                /\ idx <= k
                /\ Len(calls) < k
                /\ (ChainDone /\ idx = k) =>
                       cres.val = Raise("ImportError",
                                        <<"Onbekende engine opgegeven: ", order[k]>>)

\* The chain stopped at an unregistered name that a registered engine follows
C4_Witness ==
    /\ cpc = "raised"
    /\ UnknownAt(idx)
    /\ idx < Len(order)
    /\ order[idx + 1] \in Names(engines)
    /\ cres.val = Raise("ImportError", <<"Onbekende engine opgegeven: ", order[idx]>>)

\* C5: an engine whose extract raises a backend failure is a non-qualifying
\* candidate: the chain has moved on past it and the failure is not what the chain
\* raises.
C5_EngineFailureIsSkipped ==
    \A i \in 1..Len(calls) :
        (~calls[i].out.ok /\ calls[i].out.exc = "RuntimeError") =>
            /\ idx > i
            /\ ~(cpc = "raised" /\ cres.val = calls[i].out)

----------------------------------------------------------------------------
(* Properties of table_to_markdown, checked under SpecMarkdown *)

StartsAt(s, i, pat) ==
    /\ i + Len(pat) - 1 <= Len(s)
    /\ SubSeq(s, i, i + Len(pat) - 1) = pat

RECURSIVE SplitFrom(_, _, _, _)
\* text.split(sep) continued at position i, `cur` being the piece under construction
SplitFrom(s, sep, i, cur) ==
    IF i > Len(s) THEN <<cur>>
    ELSE IF StartsAt(s, i, sep)
         THEN <<cur>> \o SplitFrom(s, sep, i + Len(sep), <<>>)
         ELSE SplitFrom(s, sep, i + 1, Append(cur, s[i]))

Split(s, sep) == SplitFrom(s, sep, 1, <<>>)

\* The cells a reader of the pipe-delimited grid finds in one line
CellsOf(line) ==
    IF Len(line) >= 4 /\ StartsAt(line, 1, Bar \o Space)
                      /\ StartsAt(line, Len(line) - 1, Space \o Bar)
    THEN Split(SubSeq(line, 3, Len(line) - 2), Space \o Bar \o Space)
    ELSE <<>>

\* Row r of the table, filled with empty cells on the right up to `width`
Filled(row, width) == [c \in 1..width |-> IF c <= Len(row) THEN row[c].text ELSE <<>>]

\* C6: a table with rows renders as rows+1 lines: the first row, the separator
\* line of one --- per column, the other rows in order, each line holding the
\* cells of its row filled on the right to the widest row; a table without rows
\* is rejected.
C6_MarkdownGrid ==
    md.given =>
        IF table = <<>> THEN ~md.val.ok /\ md.val.exc = "ValueError"
        ELSE /\ md.val.ok
             /\ LET lines == Split(md.val.val, Newline)
                    width == Max({Len(table[r]) : r \in 1..Len(table)})
                IN  /\ Len(lines) = Len(table) + 1
                    /\ CellsOf(lines[1]) = Filled(table[1], width)
                    /\ CellsOf(lines[2]) = [c \in 1..width |-> Dashes]
                    /\ \A r \in 2..Len(table) :
                           CellsOf(lines[r + 1]) = Filled(table[r], width)

----------------------------------------------------------------------------
(* Properties of the batch, checked under SpecBatch *)

BatchDone == bpc \in {"returned", "raised"}

Keys(d) == [i \in 1..Len(d) |-> d[i].key]

\* C7: a document whose chain fails is recorded against it and the other documents
\* are still processed: a batch over at least one document returns, and the mapping
\* it returns has one entry per document, in the sorted order of the documents.
C7_FailuresRecordedPerDocument ==
    (BatchDone /\ pdf_files # <<>>) =>
        /\ bpc = "returned"
        /\ bres.val.ok
        /\ Keys(bres.val.val) = pdf_files

\* An entry whose name ends in ".pdf" in any mix of cases, behind a non-empty rest
HasPdfExtension(file) ==
    /\ Len(file) > 4
    /\ file[Len(file) - 3] = "."
    /\ file[Len(file) - 2] \in {"p", "P"}
    /\ file[Len(file) - 1] \in {"d", "D"}
    /\ file[Len(file)] \in {"f", "F"}

\* C8: on a directory without any entry of extension .pdf (in any case) the batch
\* fails with the precondition error, no engine having been invoked, no sheet
\* created and no output written.
C8_EmptyDirectoryIsRejected ==
    (bpc # "call" /\ \A file \in input_dir : ~HasPdfExtension(file)) =>
        /\ bpc = "raised"
        /\ bres.val = Raise("ValueError", <<"Geen PDF-bestanden gevonden in ">>)
        /\ calls = <<>>
        /\ workbook = <<>>
        /\ ~saved

\* The batch was refused on a directory that holds entries, none of them a PDF
C8_Witness ==
    /\ bpc = "raised"
    /\ input_dir # {}
    /\ \A file \in input_dir : ~HasPdfExtension(file)
    /\ bres.val.exc = "ValueError"
    /\ calls = <<>>
    /\ ~saved

\* The label of the n-th attempt for a base name: the base cut to the cap, then
\* the base cut further to make room for "_<n>"
Attempt(base, n) ==
    LET cut == SubSeq(base, 1, IF Len(base) < 31 THEN Len(base) ELSE 31)
        tail == <<"_">> \o Decimal(n)
    IN  IF n = 0 THEN cut
        ELSE SubSeq(cut, 1, IF Len(cut) < 31 - Len(tail) THEN Len(cut) ELSE 31 - Len(tail))
                 \o tail

Labels == [k \in 1..Len(workbook) |-> workbook[k].title]

\* C9: the labels given to the documents are pairwise distinct, non-empty and at
\* most 31 characters long; the label of a document is its base name cut to the
\* cap or, on a collision, the base shortened as needed followed by _<n>, n being
\* the first of 1, 2, ... whose label is free; and the naming loop ends: it makes
\* at most one attempt per label in use.
C9_SheetNamesUnique ==
    /\ \A k \in 1..Len(Labels) :
           /\ Labels[k] # <<>>
           /\ Len(Labels[k]) <= 31
           /\ \A j \in 1..(k - 1) : Labels[j] # Labels[k]
           /\ \E n \in 0..k :
                  /\ Labels[k] = Attempt(PathStem(pdf_files[k]), n)
                  /\ \A m \in 0..(n - 1) :
                         \E j \in 1..(k - 1) : Labels[j] = Attempt(PathStem(pdf_files[k]), m)
    /\ sheet_names = {Labels[k] : k \in 1..Len(Labels)}
    /\ bpc = "while" => suffix <= Cardinality(sheet_names) + 1

\* Three documents were labelled, the third after two collisions, with a label
\* of the full length that ends in _2
C9_Witness ==
    /\ Len(workbook) >= 3
    /\ \E k \in 1..Len(workbook) :
           /\ Len(Labels[k]) = 31
           /\ Labels[k] = Attempt(PathStem(pdf_files[k]), 2)
           /\ Labels[k] # Attempt(PathStem(pdf_files[k]), 0)

----------------------------------------------------------------------------
(* Properties of TableExtractor.extract, checked under SpecExtract *)

Unregistered(n) == \A i \in 1..Len(engines) : engines[i].name # n

\* The first requested name that is not registered
FirstUnknown(ns) ==
    ns[CHOOSE i \in 1..Len(ns) :
           /\ Unregistered(ns[i])
           /\ \A j \in 1..(i - 1) : ~Unregistered(ns[j])]

\* C10: a request that holds a name that is not registered fails with the unknown
\* engine error naming that name (the first such name of the request), whatever
\* valid names it holds besides, and no engine has run by then: neither a
\* selected one nor one of the tuning phase.
C10_UnknownNameRejected ==
    ( /\ xpc # "call"
      /\ x_names.given
      /\ \E i \in 1..Len(x_names.val) : Unregistered(x_names.val[i]) )
    => /\ xpc = "raised"
       /\ x_out.val = Raise("ValueError", <<"Onbekende engine: ", FirstUnknown(x_names.val)>>)
       /\ calls = <<>>
       /\ x_results = <<>>

\* A request with tuning on, a registered name first and an unregistered one
\* after it, was rejected
C10_Witness ==
    /\ xpc = "raised"
    /\ x_tune
    /\ x_names.given
    /\ Len(x_names.val) >= 2
    /\ ~Unregistered(x_names.val[1])
    /\ Unregistered(x_names.val[2])
    /\ x_out.val.exc = "ValueError"
    /\ calls = <<>>

\* The selected engines that the loop of a tuned call does not pass over
OtherSelected == SelectSeq(x_selected, LAMBDA e : e.name # "pymupdf4llm")

\* The positions of `calls` at which the extract of the engine named n ran
CallsOf(n) == {i \in 1..Len(calls) : calls[i].engine = n}

\* C11: a call with tuning that returns puts the reference engine's result first
\* and the tuned result second, then one result for each other selected engine in
\* the order of the selection; the reference engine's extract ran exactly once in
\* the call, as its first invocation, and no later result carries its name.
C11_TunedOutputOrder ==
    (xpc = "returned" /\ x_tune)
    => /\ Len(x_results) = 2 + Len(OtherSelected)
       /\ x_results[1].engine = "pymupdf4llm"
       /\ x_results[2].engine[1] = "pdfplumber (tuned) "
       /\ \A k \in 1..Len(OtherSelected) :
              /\ x_results[2 + k].engine = OtherSelected[k].name
              /\ x_results[2 + k].engine # "pymupdf4llm"
       /\ CallsOf("pymupdf4llm") = {1}
       /\ x_results[1].tables = calls[1].out.val
       /\ x_out.val = Ok(x_results)

\* A tuned call that named the reference engine among the selected engines, before
\* another engine, has returned
C11_Witness ==
    /\ xpc = "returned"
    /\ x_tune
    /\ x_names.given
    /\ Len(x_names.val) = 2
    /\ x_names.val[1] = "pymupdf4llm"
    /\ x_names.val[2] = "pdfplumber"
    /\ Len(x_results) = 3
    /\ Len(calls) = 3

\* C15: extract catches no failure of an engine.  Once an invocation made by the
\* call has raised, whether of the reference engine, of the tuning search or of a
\* selected engine, the call has failed with that very error, nothing was returned
\* and no further invocation follows it; after a failed reference engine the
\* tunable engine has not run.
C15_EngineFailureAborts ==
    \A i \in 1..Len(calls) :
        ~calls[i].out.ok
        => /\ i = Len(calls)
           /\ xpc = "raised"
           /\ x_out = Some(calls[i].out)
           /\ (x_tune /\ i = 1) => /\ calls[1].engine = "pymupdf4llm"
                                   /\ CallsOf("pdfplumber (tuning)") = {}
                                   /\ CallsOf("pdfplumber") = {}

\* A tuned call whose reference engine and tuning search succeeded failed at the
\* first engine of its loop, with a further selected engine still to come
C15_Witness ==
    /\ xpc = "raised"
    /\ x_tune
    /\ Len(calls) = 3
    /\ ~calls[3].out.ok
    /\ xi = 1
    /\ Len(x_selected) = 2
    /\ x_selected[2].name # "pymupdf4llm"

\* The registrations that built an extractor of ExtractRegistries, in the order
\* they were made
Histories ==
    {base \o [i \in 1..Len(ns) |-> Engine(ns[i], Len(base) + i)] :
        base \in {<<>>, DefaultEngines}, ns \in SeqsUpTo(StubEngineNames, MaxReg)}

\* The names of the registrations h, each at the place of its first registration
FirstNames(h) ==
    LET first == SelectSeq([i \in 1..Len(h) |-> i],
                           LAMBDA i : \A j \in 1..(i - 1) : h[j].name # h[i].name)
    IN  [k \in 1..Len(first) |-> h[first[k]].name]

\* The instance registered last under the name n
LatestOf(h, n) == h[Max({i \in 1..Len(h) : h[i].name = n})].inst

\* The names a call asks for: those it passes, else every registered name
Requested ==
    IF x_names.given THEN x_names.val ELSE [i \in 1..Len(engines) |-> engines[i].name]

\* C17: a call without tuning that returns has invoked one engine per requested
\* name, in the order of the request, and returns one result per requested name in
\* that order, labelled with the name and holding what that invocation produced.
\* Without a request the order is that of the first registration of each name, and
\* the engine invoked for a name is the instance registered last under it.
C17_UntunedOrder ==
    (xpc = "returned" /\ ~x_tune)
    => /\ Len(calls) = Len(Requested)
       /\ Len(x_results) = Len(Requested)
       /\ x_out.val = Ok(x_results)
       /\ \A k \in 1..Len(Requested) :
              /\ calls[k].engine = Requested[k]
              /\ x_results[k].engine = Requested[k]
              /\ x_results[k].tables = calls[k].out.val
       /\ \A h \in Histories :
              engines = RegisterAll(<<>>, h)
              => /\ ~x_names.given => Requested = FirstNames(h)
                 /\ \A k \in 1..Len(Requested) :
                        calls[k].inst = LatestOf(h, Requested[k])

\* A call without tuning and without a request has returned on an extractor on
\* which a default engine was registered again
C17_Witness ==
    /\ xpc = "returned"
    /\ ~x_tune
    /\ ~x_names.given
    /\ Len(engines) = 5
    /\ Len(x_results) = 5
    /\ \E k \in 1..5 : calls[k].inst > 5

----------------------------------------------------------------------------
(* Properties of the batch and configuration errors, checked under SpecBatch *)

\* C16: a batch over at least one document whose engine_order holds a name that
\* is not registered fails itself with the unknown engine error: it records
\* nothing per document, it does not return and it does not save the workbook.
C16_UnknownEngineFailsBatch ==
    ( /\ bpc \in {"for", "returned", "raised"}
      /\ pdf_files # <<>>
      /\ engine_order.given
      /\ \E i \in 1..Len(engine_order.val) : Unregistered(engine_order.val[i]) )
    => /\ results = <<>>
       /\ ~saved
       /\ bpc # "returned"
       /\ bpc = "raised" => /\ bres.val.exc \in {"ValueError", "ImportError"}
                            /\ bres.val.msg[2] = FirstUnknown(engine_order.val)

----------------------------------------------------------------------------
(* Properties of the tuning search, checked under SpecTune *)

\* The trials of the log that ran for the c-th candidate, by kind
TrialsOf(c, kind) ==
    {k \in 1..Len(trials) : trials[k].cand = c /\ trials[k].kind = kind}

\* The score of the k-th trial of the log, which returned
ScoreOfTrial(k) == _score_settings(trials[k].out.val, reference_tables)

\* The score of the initial trial of the c-th candidate
InitialScore(c) == ScoreOfTrial(CHOOSE k \in TrialsOf(c, "initial") : TRUE)

\* The candidate the frame's `best` belongs to: the one being searched, or after
\* its search the one before the position of the loop
BestOf == IF tpc = "search" THEN ci ELSE ci - 1

\* The score of the tables tune_to_reference returned
ReturnedScore == _score_settings(t_out.val.val.tables, reference_tables)

\* C12: the best kept by the search of a candidate never scores above that
\* candidate's initial trial, so the tuned candidate the search returns does not
\* either; what tune_to_reference returns scores no higher than the initial trial
\* of any candidate; and both the best of a search and the best over the candidates
\* are replaced only by a strictly lower score.
C12_NeverWorseThanInitial ==
    /\ []( (tpc \in {"search", "for", "returned"} /\ best # NoneVal)
               => best.score <= InitialScore(BestOf) )
    /\ []( tpc = "returned"
               => \A c \in 1..Len(candidates) : ReturnedScore <= InitialScore(c) )
    /\ [][ /\ (tpc = "search" /\ tpc' # "raised" /\ best' # best)
                  => best'.score < best.score
           /\ (tpc = "search" /\ best_overall.score.given /\ best_overall' # best_overall)
                  => best_overall'.score.val < best_overall.score.val ]_vars

\* A call over two candidates or more has returned tables of a midpoint trial that
\* score strictly under the initial trial of every candidate
C12_Witness ==
    /\ tpc = "returned"
    /\ Len(candidates) >= 2
    /\ t_out.val.val.settings.snap_tolerance # self_settings.snap_tolerance
    /\ \A c \in 1..Len(candidates) : ReturnedScore < InitialScore(c)

Width(range) == range[2] - range[1]

\* The k-th trial of the log is a step of the search that ends it whatever the
\* depth: it scored 0, or the bracket of its frame is narrower than 0.25
EndsSearch(k) ==
    /\ trials[k].kind = "search"
    /\ trials[k].out.ok
    /\ (ScoreOfTrial(k) = 0 \/ Width(trials[k].bracket) < MinWidth)

\* C13: the search of a candidate makes at most max_depth + 1 midpoint trials,
\* at the depths 0 to max_depth, one per depth (the initial trial of the candidate
\* precedes the search and is not one of them), and it makes no further trial after
\* a midpoint trial that scored 0 or whose bracket was narrower than 0.25; the call
\* is then past the search of that candidate.
C13_SearchTerminates ==
    /\ \A c \in 1..Len(candidates) :
           /\ Cardinality(TrialsOf(c, "search")) <= max_depth + 1
           /\ \A k \in TrialsOf(c, "search") :
                  /\ trials[k].depth <= max_depth
                  /\ \A j \in TrialsOf(c, "search") :
                         j # k => trials[j].depth # trials[k].depth
    /\ \A k \in 1..Len(trials) :
           EndsSearch(k)
           => /\ \A j \in (k + 1)..Len(trials) :
                     ~(trials[j].kind = "search" /\ trials[j].cand = trials[k].cand)
              /\ ~(tpc = "search" /\ ci = trials[k].cand)
    /\ \A k \in 1..Len(trials) :
           (trials[k].kind = "search" /\ trials[k].out.ok /\ trials[k].depth >= max_depth)
           => ~(tpc = "search" /\ ci = trials[k].cand)

\* A call with a depth budget of three or more has returned after a search that
\* ended at depth 2 on a bracket narrower than 0.25, with no trial scoring 0
C13_Witness ==
    /\ tpc = "returned"
    /\ max_depth >= 3
    /\ Cardinality(TrialsOf(1, "search")) = 3
    /\ \E k \in TrialsOf(1, "search") :
           /\ trials[k].depth = 2
           /\ Width(trials[k].bracket) < MinWidth
    /\ \A k \in 1..Len(trials) : ScoreOfTrial(k) # 0

RECURSIVE Pow2(_)
Pow2(n) == IF n = 0 THEN 1 ELSE 2 * Pow2(n - 1)

\* The steps of the search in the log: the trials run at a midpoint
SearchTrials == {k \in 1..Len(trials) : trials[k].kind = "search"}

\* The k-th trial is a step of the search and the next trial of the log is the
\* step its frame went on to
GoesOn(k) ==
    /\ k \in SearchTrials
    /\ k + 1 \in SearchTrials
    /\ trials[k + 1].cand = trials[k].cand

\* C18: every step of the search runs its trial at the midpoint of the bracket of
\* its frame, the first frame having the initial bracket; a step that goes on hands
\* [mid, high] to the next frame if its trial produced more tables than the
\* reference, and [low, mid] otherwise.  So every bracket lies within the initial
\* bracket, the bracket at depth d is 1/2^d as wide as the initial one, and every
\* snap_tolerance the search tries lies within the initial bracket.
C18_BisectionBrackets ==
    /\ \A k \in SearchTrials :
           LET low == trials[k].bracket[1]
               high == trials[k].bracket[2]
               mid == trials[k].settings.snap_tolerance
           IN  /\ 2 * mid = low + high
               /\ trials[k].depth = 0 => trials[k].bracket = snap_range
               /\ snap_range[1] <= low /\ high <= snap_range[2]
               /\ Width(trials[k].bracket) * Pow2(trials[k].depth) = Width(snap_range)
               /\ snap_range[1] <= mid /\ mid <= snap_range[2]
               /\ GoesOn(k)
                  => /\ trials[k + 1].depth = trials[k].depth + 1
                     /\ trials[k + 1].bracket =
                            IF Len(trials[k].out.val) > Len(reference_tables)
                            THEN <<mid, high>>
                            ELSE <<low, mid>>
    /\ tpc = "search"
       => /\ snap_range[1] <= bracket[1] /\ bracket[2] <= snap_range[2]
          /\ Width(bracket) * Pow2(depth) = Width(snap_range)

\* A search went to the upper half after a trial with more tables than the
\* reference and to the lower half after the next trial, which had fewer
C18_Witness ==
    \E k \in SearchTrials :
        /\ GoesOn(k) /\ GoesOn(k + 1)
        /\ Len(trials[k].out.val) > Len(reference_tables)
        /\ Len(trials[k + 1].out.val) < Len(reference_tables)
        /\ trials[k + 2].bracket[1] = trials[k].settings.snap_tolerance
        /\ trials[k + 2].bracket[2] = trials[k + 1].settings.snap_tolerance

\* The min_words values a call is to try: those of the caller and the engine's own
Wanted ==
    {self_settings.min_words}
        \cup (IF min_word_options.given
              THEN {min_word_options.val[i] : i \in 1..Len(min_word_options.val)}
              ELSE {})

\* The earliest trial of the log whose score is the least of all the trials run
EarliestBest ==
    CHOOSE k \in 1..Len(trials) :
        /\ \A j \in 1..Len(trials) : ScoreOfTrial(k) <= ScoreOfTrial(j)
        /\ \A j \in 1..(k - 1) : ScoreOfTrial(j) > ScoreOfTrial(k)

\* C19: the candidates are the values of the caller and the engine's default, each
\* once, in ascending order, and the trials run candidate after candidate in that
\* order.  A call that returns has tried every candidate, and it returns the tables
\* and the settings of one trial it ran: the earliest of the trials whose score is
\* the least over all the trials of the call, whether or not that score is 0.
C19_ReturnsEarliestBestTrial ==
    /\ tpc \notin {"idle", "call"}
       => /\ {candidates[i] : i \in 1..Len(candidates)} = Wanted
          /\ \A i \in 1..(Len(candidates) - 1) : candidates[i] < candidates[i + 1]
          /\ \A k \in 1..Len(trials) :
                 /\ trials[k].settings.min_words = candidates[trials[k].cand]
                 /\ k > 1 => trials[k - 1].cand <= trials[k].cand
    /\ tpc = "returned"
       => /\ \A c \in 1..Len(candidates) : TrialsOf(c, "initial") # {}
          /\ trials # <<>>
          /\ t_out.val.val = [tables |-> trials[EarliestBest].out.val,
                              settings |-> trials[EarliestBest].settings]

\* A call over candidates given out of order has returned the tables of the
\* earlier of two trials that share the least score, and that score is not 0
C19_Witness ==
    /\ tpc = "returned"
    /\ min_word_options = Some(<<3, 1>>)
    /\ ScoreOfTrial(EarliestBest) > 0
    /\ t_out.val.val.tables # <<>>
    /\ \E j \in (EarliestBest + 1)..Len(trials) :
           ScoreOfTrial(j) = ScoreOfTrial(EarliestBest)

----------------------------------------------------------------------------
(* Properties of the engines and their backends, checked under SpecEngines *)

\* The engines that keep a lazily created handle, and what the handle is
LazyEngines == {"easyocr", "docling", "camelot"}

HandleKind(engine) ==
    CASE engine = "easyocr" -> "Reader"
      [] engine = "docling" -> "DocumentConverter"
      [] engine = "camelot" -> "_ImmediateTempDir"

\* The calls of the log made on the engine, and those that worked with a handle
CallsOn(engine) == {k \in 1..Len(e_calls) : e_calls[k].engine = engine}

CallsWithHandle(engine) == {k \in CallsOn(engine) : e_calls[k].handle.given}

\* C20: over the extract calls made on an engine instance its handle (the OCR
\* reader, the document converter, the patched temporary directory class) is
\* created at most once, by the first call that comes to work with a handle, and
\* every later call works with that same handle without creating one.
C20_HandleCreatedOnce ==
    \A engine \in LazyEngines :
        /\ Cardinality({i \in 1..Len(handles) : handles[i].kind = HandleKind(engine)}) <= 1
        /\ Cardinality({k \in CallsOn(engine) : e_calls[k].created}) <= 1
        /\ \A k \in CallsOn(engine) : e_calls[k].created => e_calls[k].handle.given
        /\ \A k \in CallsWithHandle(engine) :
               /\ e_calls[k].created <=> (\A j \in CallsWithHandle(engine) : k <= j)
               /\ e_calls[k].handle.val.kind = HandleKind(engine)
               /\ \A j \in CallsWithHandle(engine) :
                      e_calls[j].handle = e_calls[k].handle

\* Three calls were made on the OCR engine: the first failed to build the reader,
\* the second built it and the third worked with the reader of the second
C20_Witness ==
    /\ Len(e_calls) = 3
    /\ \A k \in 1..3 : e_calls[k].engine = "easyocr"
    /\ ~e_calls[1].handle.given
    /\ e_calls[2].created
    /\ ~e_calls[3].created
    /\ e_calls[3].handle = e_calls[2].handle
    /\ _reader = e_calls[2].handle

\* The module an engine is named after and needs for its work
BackendOf(engine) == engine

\* The outcome is an error that tells the module is missing: the RuntimeError of
\* _ensure_dependency and _ensure_converter, or the error of the import statement
Unavailable(out, module) ==
    /\ ~out.ok
    /\ \/ out.exc = "RuntimeError" /\ out.msg = NotInstalled(module)
       \/ out.exc = "ModuleNotFoundError" /\ out.msg = <<"No module named ", module>>

\* C14: every extract call made on an engine whose backend module cannot be
\* imported fails with an error telling that the backend is missing; no such call
\* returns tables or an empty list.
C14_AbsentBackendAlwaysFails ==
    \A k \in 1..Len(e_calls) :
        BackendOf(e_calls[k].engine) \notin installed
        => Unavailable(e_calls[k].out, BackendOf(e_calls[k].engine))

\* C21: every table of the list an extract call returned has at least one row,
\* whatever the backend handed over.
C21_NoZeroRowTables ==
    \A k \in 1..Len(e_calls) :
        e_calls[k].out.ok
        => \A t \in 1..Len(e_calls[k].out.val) : Len(e_calls[k].out.val[t]) >= 1

====
